---- MODULE Spec2Model ----
(***************************************************************************)
(* A model of skills/managing-skills/scripts/quick_validate.py: the        *)
(* validator validate_skill, a straight-line sequence of gates over the    *)
(* file <skill_path>/SKILL.md, and its command-line entry point main.      *)
(*                                                                         *)
(* Text is modelled at character level: a string is a sequence of          *)
(* one-character strings.  The YAML library is not part of the repository: *)
(* each file carries, beside its text, the value yaml.safe_load yields for *)
(* the frontmatter block that the validator extracts from it.              *)
(***************************************************************************)
EXTENDS Integers, Sequences, FiniteSets, TLC

VARIABLES
    files,               \* path -> the SKILL.md found in that directory
    ALLOWED_PROPERTIES,  \* the module-level set of line 21
    calls,               \* invocations the caller still makes
    mode,                \* "none" | "lib" (validate_skill called) | "cli" (main)
    pc,                  \* position of the running invocation
    argv,                \* sys.argv of a command-line run
    skill_path,          \* validate_skill's argument
    started,             \* the file at skill_path when validate_skill was entered
    touched,             \* the file was changed while validate_skill ran
    content,             \* locals of validate_skill ...
    frontmatter_text,
    frontmatter,
    name,
    description,
    result,              \* what validate_skill returned
    exc,                 \* the exception that escaped validate_skill
    stdout,              \* lines printed by main
    exitcode,            \* exit status of a command-line run
    history              \* outcomes of completed validate_skill calls

vars == <<files, ALLOWED_PROPERTIES, calls, mode, pc, argv, skill_path, started,
          touched, content, frontmatter_text, frontmatter, name, description,
          result, exc, stdout, exitcode, history>>

----------------------------------------------------------------------------
(* Program constants *)

NameLimit == 64
DescriptionLimit == 1024
LineLimit == 500
ArgcExpected == 2

(* Bounds of the model *)

MaxNameLen == 4      \* length of the exhaustively enumerated names
MaxLines == 4        \* number of exhaustively enumerated lines of a document
MaxCalls == 3        \* invocations in one behaviour
MaxArgs == 2         \* positional arguments on the command line
Slack == 1           \* how far beyond a limit the long inputs go

----------------------------------------------------------------------------
(* Python's string primitives, on sequences of characters *)

Hyphen == "-"
Newline == "\n"
Dashes == <<Hyphen, Hyphen, Hyphen>>

Rep(c, n) == [i \in 1..n |-> c]

\* str.startswith
Startswith(s, p) == Len(s) >= Len(p) /\ SubSeq(s, 1, Len(p)) = p

\* str.endswith
Endswith(s, p) == Len(s) >= Len(p) /\ SubSeq(s, Len(s) - Len(p) + 1, Len(s)) = p

\* the `in` operator on strings
Contains(s, sub) ==
    \E i \in 1..(Len(s) - Len(sub) + 1) : \A k \in 1..Len(sub) : s[i + k - 1] = sub[k]

\* the characters str.strip() removes
Whitespace == {" ", "\t", "\n", "\r", "\f"}

\* str.strip(): drop leading and trailing whitespace
Strip(s) ==
    LET keep == {i \in 1..Len(s) : s[i] \notin Whitespace}
    IN  IF keep = {} THEN <<>>
        ELSE LET lo == CHOOSE i \in keep : \A j \in keep : i <= j
                 hi == CHOOSE i \in keep : \A j \in keep : j <= i
             IN  SubSeq(s, lo, hi)

\* Line 101 with content.count('\n') for len(content.splitlines())
CountNewlines(s) == Cardinality({i \in 1..Len(s) : s[i] = Newline})

\* len(content.splitlines()), for text whose only line boundary is the newline
\* (read_text translates \r\n and \r to \n): every newline ends a line, and a last
\* line needs none
SplitlinesLen(s) ==
    Cardinality({i \in 1..Len(s) : s[i] = Newline})
        + (IF Len(s) > 0 /\ s[Len(s)] # Newline THEN 1 ELSE 0)

----------------------------------------------------------------------------
(* Python values, as far as the validator tells them apart *)

Str(s) == [t |-> "str", s |-> s]            \* a str and its characters
Other(t) == [t |-> t, s |-> <<>>]           \* a value of another type, by type name
None == Other("NoneType")

\* A mapping key: YAML keys need not be strings
K(v) == [t |-> "str", v |-> v]
IntKey == [t |-> "int", v |-> "1"]

EmptyDict == [k \in {} |-> None]

\* What yaml.safe_load does with a frontmatter block: it raises yaml.YAMLError,
\* or yields a value that is no dict, or yields a dict
YamlError == [kind |-> "error", d |-> EmptyDict]
YamlNonDict == [kind |-> "nondict", d |-> EmptyDict]
YamlDict(d) == [kind |-> "dict", d |-> d]

\* Line 55, yaml.safe_load(frontmatter_text).  A block without any payload
\* character (blank, or hyphens only) is no mapping whatever the file says.
yaml_safe_load(text, file) ==
    IF \A i \in 1..Len(text) : text[i] \in {Hyphen, Newline}
    THEN YamlNonDict
    ELSE file.yaml

\* The file system entry <skill_path>/SKILL.md
Missing == [kind |-> "missing", text |-> <<>>, yaml |-> YamlNonDict]
Directory == [kind |-> "dir", text |-> <<>>, yaml |-> YamlNonDict]
NoPermission(f) == [f EXCEPT !.kind = "noperm"]
NotUtf8(f) == [f EXCEPT !.kind = "binary"]
File(text, yaml) == [kind |-> "file", text |-> text, yaml |-> yaml]

\* Line 38, Path.exists()
path_exists(file) == file.kind # "missing"

\* Line 42, Path.read_text(): the exception it raises, or "none"
read_text_error(file) ==
    CASE file.kind = "missing" -> "FileNotFoundError"
      [] file.kind = "dir"     -> "IsADirectoryError"
      [] file.kind = "noperm"  -> "PermissionError"
      [] file.kind = "binary"  -> "UnicodeDecodeError"
      [] OTHER                 -> "none"

----------------------------------------------------------------------------
(* Messages: the f-strings of validate_skill, by their parts *)

NoMsg == [id |-> "none", text |-> <<>>, num |-> 0, max |-> 0, keys |-> <<>>, allowed |-> <<>>]
Msg(id) == [NoMsg EXCEPT !.id = id]
MsgText(id, s) == [NoMsg EXCEPT !.id = id, !.text = s]
MsgNum(id, n, m) == [NoMsg EXCEPT !.id = id, !.num = n, !.max = m]
MsgKeys(id, ks, al) == [NoMsg EXCEPT !.id = id, !.keys = ks, !.allowed = al]

NoResult == [valid |-> FALSE, message |-> NoMsg]

----------------------------------------------------------------------------
(* sorted() and ", ".join() on key sets, lines 65-66 *)

\* Code-point order of the characters that occur in the key names
CodeOrder == <<"-", "a", "c", "d", "e", "h", "i", "l", "m", "n", "o", "p", "r", "s", "t", "u", "w", "x">>
Code(c) == CHOOSE i \in 1..Len(CodeOrder) : CodeOrder[i] = c

KeyChars(v) ==
    CASE v = "name"          -> <<"n", "a", "m", "e">>
      [] v = "description"   -> <<"d", "e", "s", "c", "r", "i", "p", "t", "i", "o", "n">>
      [] v = "license"       -> <<"l", "i", "c", "e", "n", "s", "e">>
      [] v = "allowed-tools" -> <<"a", "l", "l", "o", "w", "e", "d", "-", "t", "o", "o", "l", "s">>
      [] v = "metadata"      -> <<"m", "e", "t", "a", "d", "a", "t", "a">>
      [] v = "extra"         -> <<"e", "x", "t", "r", "a">>
      [] v = "author"        -> <<"a", "u", "t", "h", "o", "r">>
      [] OTHER               -> <<>>

\* str.__lt__: lexicographic by code point
StrLess(a, b) ==
    LET x == KeyChars(a)
        y == KeyChars(b)
    IN  \/ \E i \in 1..Len(x) : /\ i <= Len(y)
                              /\ SubSeq(x, 1, i - 1) = SubSeq(y, 1, i - 1)
                              /\ Code(x[i]) < Code(y[i])
        \/ Len(x) < Len(y) /\ SubSeq(y, 1, Len(x)) = x

\* sorted() raises TypeError when it must compare values of different types
sorted_raises(S) == \E a, b \in S : a.t # b.t

RECURSIVE sorted(_)
sorted(S) ==
    IF S = {} THEN <<>>
    ELSE LET m == CHOOSE a \in S : \A b \in S \ {a} : StrLess(a.v, b.v)
         IN  <<m>> \o sorted(S \ {m})

\* str.join raises TypeError on an item that is no str
join_raises(seq) == \E i \in 1..Len(seq) : seq[i].t # "str"

----------------------------------------------------------------------------
(* The gates of validate_skill, lines 24-105 *)

\* Line 21
AllowedProperties ==
    {K("name"), K("description"), K("license"), K("allowed-tools"), K("metadata")}

\* Line 43 with the opening delimiter required on a line of its own
has_frontmatter_own_line(text) ==
    text = Dashes \/ Startswith(text, Dashes \o <<Newline>>)

\* Line 43, content.startswith('---')
has_frontmatter(text) == Startswith(text, Dashes)

\* Line 47, re.match(r'^---\n(.*?)\n---', content, re.DOTALL): the positions at
\* which the closing "\n---" can start, after the opening "---\n"
match_ends(text) ==
    IF Startswith(text, Dashes \o <<Newline>>)
    THEN {j \in 5..(Len(text) - 3) :
            text[j] = Newline /\ \A k \in 1..3 : text[j + k] = Hyphen}
    ELSE {}

match(text) == match_ends(text) # {}

\* Line 51, match.group(1): the non-greedy group ends at the first such position
group1(text) ==
    LET j == CHOOSE j \in match_ends(text) : \A k \in match_ends(text) : j <= k
    IN  SubSeq(text, 5, j - 1)

\* Line 62
unexpected_keys(fm, allowed) == (DOMAIN fm) \ allowed

\* Lines 76 and 90, frontmatter.get(key, '')
get(fm, key) == IF key \in DOMAIN fm THEN fm[key] ELSE Str(<<>>)

\* Lines 77 and 91, isinstance(value, str)
isinstance_str(value) == value.t = "str"

\* The character class [a-z0-9-]
HyphenCaseChars ==
    {"a", "b", "c", "d", "e", "f", "g", "h", "i", "j", "k", "l", "m", "n", "o", "p",
     "q", "r", "s", "t", "u", "v", "w", "x", "y", "z",
     "0", "1", "2", "3", "4", "5", "6", "7", "8", "9", Hyphen}

\* Line 82, re.match(r'^[a-z0-9-]+$', name): `$` also matches before a final newline
hyphen_case(s) ==
    LET body == IF Len(s) > 0 /\ s[Len(s)] = Newline THEN SubSeq(s, 1, Len(s) - 1) ELSE s
    IN  Len(body) > 0 /\ \A i \in 1..Len(body) : body[i] \in HyphenCaseChars

\* Line 84 without its endswith('-')
bad_hyphens_no_end(s) ==
    \/ Startswith(s, <<Hyphen>>)
    \/ Contains(s, <<Hyphen, Hyphen>>)

\* Line 84
bad_hyphens(s) ==
    \/ Startswith(s, <<Hyphen>>)
    \/ Endswith(s, <<Hyphen>>)
    \/ Contains(s, <<Hyphen, Hyphen>>)

\* Line 86
name_too_long(s) == Len(s) > NameLimit

\* Line 95
has_angle_brackets(s) == Contains(s, <<"<">>) \/ Contains(s, <<">">>)

\* Line 97
description_too_long(s) == Len(s) > DescriptionLimit

\* Line 102 with >= for >
too_many_lines_inclusive(n) == n >= LineLimit

\* Line 102
too_many_lines(n) == n > LineLimit

\* Line 62 with an in-place update of the module-level set
allowed_updated_in_place(allowed, keys) == allowed \cup keys

\* Line 62 builds a new set: the module-level set is what it was
allowed_after_check(allowed, keys) == allowed

----------------------------------------------------------------------------
(* The inputs the behaviours start from *)

Paths == {"p1", "p2"}

SeqsUpTo(S, n) == UNION {[1..k -> S] : k \in 0..n}

NameChars == {"a", Hyphen, "A", " "}
DescChars == {"a", "<", ">", " "}

ShortNames == SeqsUpTo(NameChars, MaxNameLen)
LongNames ==
    {pre \o Rep("a", n) \o suf :
        pre \in SeqsUpTo(NameChars, 1), suf \in SeqsUpTo(NameChars, 1),
        n \in (NameLimit - 2)..(NameLimit + Slack)}

\* The lines documents are made of: blank, "--", "---", "----", "---x", "x"
LineKinds ==
    {<<>>, <<Hyphen, Hyphen>>, Dashes, Dashes \o <<Hyphen>>, Dashes \o <<"x">>, <<"x">>}

RECURSIVE JoinLines(_)
JoinLines(ls) ==
    IF Len(ls) = 0 THEN <<>>
    ELSE IF Len(ls) = 1 THEN ls[1]
    ELSE ls[1] \o <<Newline>> \o JoinLines(Tail(ls))

\* Documents of up to n lines, with and without a final newline
Texts(n) ==
    {JoinLines(ls) \o end : ls \in SeqsUpTo(LineKinds, n), end \in {<<>>, <<Newline>>}}

\* n body lines "x", each ended by a newline
Body(n) == [i \in 1..(2 * n) |-> IF i % 2 = 1 THEN "x" ELSE Newline]

Header == Dashes \o <<Newline, "x", Newline>> \o Dashes \o <<Newline>>

\* Three header lines and a body that brings the document to n lines
TextOfLines(n) == Header \o Body(n - 3)

\* A parsed frontmatter with the keys ks, the name nm and the description ds
MkDict(ks, nm, ds) ==
    [k \in ks |-> IF k = K("name") THEN nm
                  ELSE IF k = K("description") THEN ds
                  ELSE Str(<<"x">>)]

Required == {K("name"), K("description")}
ValidDict == MkDict(Required, Str(<<"a">>), Str(<<"a">>))
ValidFile == File(Header, YamlDict(ValidDict))

\* Documents around every gate of the header, and around the line limit
GeneralTexts ==
    {TextOfLines(n) : n \in {3} \cup ((LineLimit - 1)..(LineLimit + Slack))}
        \cup {JoinLines(ls) : ls \in {<<<<"x">>, Dashes>>,
                                      <<Dashes \o <<Hyphen>>, <<"x">>, Dashes>>,
                                      <<Dashes, <<"x">>>>,
                                      <<Dashes, <<"x">>, Dashes>>,
                                      <<Dashes, <<"x">>, Dashes \o <<"x">>>>,
                                      <<Dashes, <<>>, Dashes>>}}

GeneralKeySets ==
    {base \cup more : base \in SUBSET Required, more \in SUBSET {K("extra"), IntKey}}
        \cup {AllowedProperties, Required \cup {K("extra"), K("author")}}

\* Mappings that differ in their keys and in the types of their values ...
KeyedDicts ==
    {MkDict(ks, nm, ds) :
        ks \in GeneralKeySets,
        nm \in {Str(<<"a">>), Str(<<"A">>), Other("int")},
        ds \in {Str(<<"a">>), Str(<<"<">>), Other("list")}}

\* ... and mappings with the two required keys that differ in the strings
ValuedDicts ==
    {MkDict(Required, Str(nm), Str(ds)) :
        nm \in SeqsUpTo(NameChars, 1)
                 \cup {Rep("a", n) : n \in NameLimit..(NameLimit + Slack)},
        ds \in SeqsUpTo(DescChars, 1)
                 \cup {Rep("a", n) : n \in DescriptionLimit..(DescriptionLimit + Slack)}}

GeneralYamls ==
    {YamlError, YamlNonDict} \cup {YamlDict(d) : d \in KeyedDicts \cup ValuedDicts}

GeneralFiles ==
    {Missing, Directory, NoPermission(ValidFile), NotUtf8(ValidFile)}
        \cup {File(t, y) : t \in GeneralTexts, y \in GeneralYamls}

----------------------------------------------------------------------------
(* The state after construction *)

InitLocals ==
    /\ ALLOWED_PROPERTIES = AllowedProperties
    /\ mode = "none"
    /\ pc = "idle"
    /\ argv = <<>>
    /\ skill_path = ""
    /\ started = Missing
    /\ touched = FALSE
    /\ content = <<>>
    /\ frontmatter_text = <<>>
    /\ frontmatter = EmptyDict
    /\ name = <<>>
    /\ description = <<>>
    /\ result = NoResult
    /\ exc = "none"
    /\ stdout = <<>>
    /\ exitcode = -1
    /\ history = {}

----------------------------------------------------------------------------
(* Control flow *)

Return(valid, message) ==
    /\ result' = [valid |-> valid, message |-> message]
    /\ pc' = "returned"
    /\ exc' = exc

Raise(e) ==
    /\ exc' = e
    /\ pc' = "raised"
    /\ result' = result

Goto(label) ==
    /\ pc' = label
    /\ UNCHANGED <<result, exc>>

\* A caller invokes validate_skill(p) as a library function
CallLib(p) ==
    /\ pc = "idle"
    /\ calls > 0
    /\ calls' = calls - 1
    /\ mode' = "lib"
    /\ skill_path' = p
    /\ started' = files[p]
    /\ pc' = "exists"
    /\ UNCHANGED <<files, ALLOWED_PROPERTIES, argv, touched, content, frontmatter_text,
                   frontmatter, name, description, result, exc, stdout, exitcode, history>>

\* A new process runs the script with the arguments args: line 21 is executed
CallMain(args) ==
    /\ pc = "idle"
    /\ calls > 0
    /\ calls' = calls - 1
    /\ mode' = "cli"
    /\ argv' = <<"quick_validate.py">> \o args
    /\ ALLOWED_PROPERTIES' = AllowedProperties
    /\ pc' = "main"
    /\ UNCHANGED <<files, skill_path, started, touched, content, frontmatter_text,
                   frontmatter, name, description, result, exc, stdout, exitcode, history>>

UsageLine == [marker |-> "usage", message |-> NoMsg]

\* Lines 109-116
MainArgs ==
    /\ pc = "main"
    /\ IF Len(argv) # ArgcExpected
       THEN /\ stdout' = <<UsageLine, UsageLine, UsageLine, UsageLine>>
            /\ exitcode' = 1
            /\ pc' = "exited"
            /\ UNCHANGED <<skill_path, started>>
       ELSE /\ skill_path' = argv[2]
            /\ started' = files[argv[2]]
            /\ pc' = "exists"
            /\ UNCHANGED <<stdout, exitcode>>
    /\ UNCHANGED <<files, ALLOWED_PROPERTIES, calls, mode, argv, touched, content,
                   frontmatter_text, frontmatter, name, description, result, exc, history>>

\* Lines 34-39
Exists ==
    /\ pc = "exists"
    /\ IF ~path_exists(files[skill_path])
       THEN Return(FALSE, Msg("not_found"))
       ELSE Goto("read")
    /\ UNCHANGED <<files, ALLOWED_PROPERTIES, calls, mode, argv, skill_path, started,
                   touched, content, frontmatter_text, frontmatter, name, description,
                   stdout, exitcode, history>>

\* Another process deletes SKILL.md between the check of line 38 and the read of line 42
Remove ==
    /\ pc = "read"
    /\ path_exists(files[skill_path])
    /\ files' = [files EXCEPT ![skill_path] = Missing]
    /\ touched' = TRUE
    /\ UNCHANGED <<ALLOWED_PROPERTIES, calls, mode, pc, argv, skill_path, started, content,
                   frontmatter_text, frontmatter, name, description, result, exc, stdout,
                   exitcode, history>>

\* Line 42
ReadText ==
    /\ pc = "read"
    /\ IF read_text_error(files[skill_path]) # "none"
       THEN Raise(read_text_error(files[skill_path])) /\ UNCHANGED content
       ELSE Goto("startswith") /\ content' = files[skill_path].text
    /\ UNCHANGED <<files, ALLOWED_PROPERTIES, calls, mode, argv, skill_path, started,
                   touched, frontmatter_text, frontmatter, name, description,
                   stdout, exitcode, history>>

\* Lines 43-44
CheckFrontmatter ==
    /\ pc = "startswith"
    /\ IF ~has_frontmatter(content)
       THEN Return(FALSE, Msg("no_frontmatter"))
       ELSE Goto("match")
    /\ UNCHANGED <<files, ALLOWED_PROPERTIES, calls, mode, argv, skill_path, started,
                   touched, content, frontmatter_text, frontmatter, name, description,
                   stdout, exitcode, history>>

\* Lines 46-51
ExtractFrontmatter ==
    /\ pc = "match"
    /\ IF ~match(content)
       THEN Return(FALSE, Msg("invalid_format")) /\ UNCHANGED frontmatter_text
       ELSE Goto("parse") /\ frontmatter_text' = group1(content)
    /\ UNCHANGED <<files, ALLOWED_PROPERTIES, calls, mode, argv, skill_path, started,
                   touched, content, frontmatter, name, description,
                   stdout, exitcode, history>>

\* Lines 53-59
ParseYaml ==
    /\ pc = "parse"
    /\ LET y == yaml_safe_load(frontmatter_text, files[skill_path])
       IN  CASE y.kind = "error" ->
                  Return(FALSE, Msg("invalid_yaml")) /\ UNCHANGED frontmatter
             [] y.kind = "nondict" ->
                  Return(FALSE, Msg("not_a_dict")) /\ UNCHANGED frontmatter
             [] OTHER ->
                  Goto("keys") /\ frontmatter' = y.d
    /\ UNCHANGED <<files, ALLOWED_PROPERTIES, calls, mode, argv, skill_path, started,
                   touched, content, frontmatter_text, name, description,
                   stdout, exitcode, history>>

\* Lines 61-73 with the check for `name` moved before the check of the keys
CheckKeysAfterName ==
    /\ pc = "keys"
    /\ IF K("name") \notin DOMAIN frontmatter
       THEN Return(FALSE, Msg("missing_name"))
       ELSE IF unexpected_keys(frontmatter, ALLOWED_PROPERTIES) # {}
            THEN Return(FALSE, MsgKeys("unexpected_keys",
                                       sorted(unexpected_keys(frontmatter, ALLOWED_PROPERTIES)),
                                       sorted(ALLOWED_PROPERTIES)))
            ELSE Goto("required_description")
    /\ UNCHANGED <<files, ALLOWED_PROPERTIES, calls, mode, argv, skill_path, started,
                   touched, content, frontmatter_text, frontmatter, name, description,
                   stdout, exitcode, history>>

\* Lines 61-67
CheckKeys ==
    /\ pc = "keys"
    /\ LET unexpected == unexpected_keys(frontmatter, ALLOWED_PROPERTIES)
       IN  IF unexpected # {}
           THEN IF sorted_raises(unexpected) \/ join_raises(sorted(unexpected))
                THEN Raise("TypeError")
                ELSE Return(FALSE, MsgKeys("unexpected_keys", sorted(unexpected),
                                           sorted(ALLOWED_PROPERTIES)))
           ELSE Goto("required_name")
    /\ ALLOWED_PROPERTIES' = allowed_after_check(ALLOWED_PROPERTIES, DOMAIN frontmatter)
    /\ UNCHANGED <<files, calls, mode, argv, skill_path, started,
                   touched, content, frontmatter_text, frontmatter, name, description,
                   stdout, exitcode, history>>

\* Lines 70-71
RequireName ==
    /\ pc = "required_name"
    /\ IF K("name") \notin DOMAIN frontmatter
       THEN Return(FALSE, Msg("missing_name"))
       ELSE Goto("required_description")
    /\ UNCHANGED <<files, ALLOWED_PROPERTIES, calls, mode, argv, skill_path, started,
                   touched, content, frontmatter_text, frontmatter, name, description,
                   stdout, exitcode, history>>

\* Lines 72-73
RequireDescription ==
    /\ pc = "required_description"
    /\ IF K("description") \notin DOMAIN frontmatter
       THEN Return(FALSE, Msg("missing_description"))
       ELSE Goto("name_type")
    /\ UNCHANGED <<files, ALLOWED_PROPERTIES, calls, mode, argv, skill_path, started,
                   touched, content, frontmatter_text, frontmatter, name, description,
                   stdout, exitcode, history>>

\* Lines 76-80: the type check, strip(), and `if name:`
NameType ==
    /\ pc = "name_type"
    /\ LET value == get(frontmatter, K("name"))
       IN  IF ~isinstance_str(value)
           THEN Return(FALSE, MsgText("name_type", <<value.t>>)) /\ UNCHANGED name
           ELSE /\ name' = Strip(value.s)
                /\ Goto(IF Strip(value.s) # <<>> THEN "name_charset" ELSE "description_type")
    /\ UNCHANGED <<files, ALLOWED_PROPERTIES, calls, mode, argv, skill_path, started,
                   touched, content, frontmatter_text, frontmatter, description,
                   stdout, exitcode, history>>

\* Lines 82-83
NameCharset ==
    /\ pc = "name_charset"
    /\ IF ~hyphen_case(name)
       THEN Return(FALSE, MsgText("name_charset", name))
       ELSE Goto("name_hyphens")
    /\ UNCHANGED <<files, ALLOWED_PROPERTIES, calls, mode, argv, skill_path, started,
                   touched, content, frontmatter_text, frontmatter, name, description,
                   stdout, exitcode, history>>

\* Lines 84-85
NameHyphens ==
    /\ pc = "name_hyphens"
    /\ IF bad_hyphens(name)
       THEN Return(FALSE, MsgText("name_hyphens", name))
       ELSE Goto("name_length")
    /\ UNCHANGED <<files, ALLOWED_PROPERTIES, calls, mode, argv, skill_path, started,
                   touched, content, frontmatter_text, frontmatter, name, description,
                   stdout, exitcode, history>>

\* Lines 86-87
NameLength ==
    /\ pc = "name_length"
    /\ IF name_too_long(name)
       THEN Return(FALSE, MsgNum("name_length", Len(name), NameLimit))
       ELSE Goto("description_type")
    /\ UNCHANGED <<files, ALLOWED_PROPERTIES, calls, mode, argv, skill_path, started,
                   touched, content, frontmatter_text, frontmatter, name, description,
                   stdout, exitcode, history>>

\* Lines 90-94: the type check, strip(), and `if description:`
DescriptionType ==
    /\ pc = "description_type"
    /\ LET value == get(frontmatter, K("description"))
       IN  IF ~isinstance_str(value)
           THEN Return(FALSE, MsgText("description_type", <<value.t>>))
                /\ UNCHANGED description
           ELSE /\ description' = Strip(value.s)
                /\ Goto(IF Strip(value.s) # <<>> THEN "description_angle" ELSE "line_count")
    /\ UNCHANGED <<files, ALLOWED_PROPERTIES, calls, mode, argv, skill_path, started,
                   touched, content, frontmatter_text, frontmatter, name,
                   stdout, exitcode, history>>

\* Lines 95-96
DescriptionAngle ==
    /\ pc = "description_angle"
    /\ IF has_angle_brackets(description)
       THEN Return(FALSE, Msg("description_angle"))
       ELSE Goto("description_length")
    /\ UNCHANGED <<files, ALLOWED_PROPERTIES, calls, mode, argv, skill_path, started,
                   touched, content, frontmatter_text, frontmatter, name, description,
                   stdout, exitcode, history>>

\* Lines 97-98
DescriptionLength ==
    /\ pc = "description_length"
    /\ IF description_too_long(description)
       THEN Return(FALSE, MsgNum("description_length", Len(description), DescriptionLimit))
       ELSE Goto("line_count")
    /\ UNCHANGED <<files, ALLOWED_PROPERTIES, calls, mode, argv, skill_path, started,
                   touched, content, frontmatter_text, frontmatter, name, description,
                   stdout, exitcode, history>>

\* Lines 100-105
LineCount ==
    /\ pc = "line_count"
    /\ LET line_count == SplitlinesLen(content)
       IN  IF too_many_lines(line_count)
           THEN Return(FALSE, MsgNum("too_long", line_count, LineLimit))
           ELSE Return(TRUE, MsgNum("valid", line_count, 0))
    /\ UNCHANGED <<files, ALLOWED_PROPERTIES, calls, mode, argv, skill_path, started,
                   touched, content, frontmatter_text, frontmatter, name, description,
                   stdout, exitcode, history>>

\* Lines 118-123
MainPrint ==
    /\ pc = "returned"
    /\ mode = "cli"
    /\ stdout' = <<[marker |-> IF result.valid THEN "ok" ELSE "fail",
                    message |-> result.message]>>
    /\ exitcode' = IF result.valid THEN 0 ELSE 1
    /\ pc' = "exited"
    /\ UNCHANGED <<files, ALLOWED_PROPERTIES, calls, mode, argv, skill_path, started,
                   touched, content, frontmatter_text, frontmatter, name, description,
                   result, exc, history>>

\* Line 116: an exception out of validate_skill is not caught in main; the
\* interpreter prints the traceback to stderr and exits with status 1
MainCrash ==
    /\ pc = "raised"
    /\ mode = "cli"
    /\ exitcode' = 1
    /\ pc' = "exited"
    /\ UNCHANGED <<files, ALLOWED_PROPERTIES, calls, mode, argv, skill_path, started,
                   touched, content, frontmatter_text, frontmatter, name, description,
                   result, exc, stdout, history>>

\* What a completed call of validate_skill gave its caller
Outcome == [raised |-> exc, result |-> result]

\* The invocation is over: its locals are gone, the caller keeps the outcome
Finish ==
    /\ pc \in (IF mode = "lib" THEN {"returned", "raised"} ELSE {"exited"})
    /\ history' = IF skill_path # "" /\ ~touched
                  THEN history \cup {[file |-> started, outcome |-> Outcome]}
                  ELSE history
    /\ mode' = "none"
    /\ pc' = "idle"
    /\ argv' = <<>>
    /\ skill_path' = ""
    /\ started' = Missing
    /\ touched' = FALSE
    /\ content' = <<>>
    /\ frontmatter_text' = <<>>
    /\ frontmatter' = EmptyDict
    /\ name' = <<>>
    /\ description' = <<>>
    /\ result' = NoResult
    /\ exc' = "none"
    /\ stdout' = <<>>
    /\ exitcode' = -1
    /\ UNCHANGED <<files, ALLOWED_PROPERTIES, calls>>

Next ==
    \/ \E p \in Paths : CallLib(p)
    \/ \E args \in SeqsUpTo(Paths, MaxArgs) : CallMain(args)
    \/ MainArgs
    \/ Exists
    \/ Remove
    \/ ReadText
    \/ CheckFrontmatter
    \/ ExtractFrontmatter
    \/ ParseYaml
    \/ CheckKeys
    \/ RequireName
    \/ RequireDescription
    \/ NameType
    \/ NameCharset
    \/ NameHyphens
    \/ NameLength
    \/ DescriptionType
    \/ DescriptionAngle
    \/ DescriptionLength
    \/ LineCount
    \/ MainPrint
    \/ MainCrash
    \/ Finish

Init ==
    /\ files \in {[p \in Paths |-> IF p = "p1" THEN f ELSE Missing] : f \in GeneralFiles}
    /\ calls = 1
    /\ InitLocals

Spec == Init /\ [][Next]_vars

\* Every document of up to MaxLines lines, with a header that parses or does not
TextFiles ==
    {Missing} \cup {File(t, y) : t \in Texts(MaxLines), y \in {YamlDict(ValidDict), YamlError}}

InitText ==
    /\ files \in {[p \in Paths |-> IF p = "p1" THEN f ELSE Missing] : f \in TextFiles}
    /\ calls = 1
    /\ InitLocals

SpecText == InitText /\ [][Next]_vars

\* A well-formed document with every name in turn
NameFiles ==
    {File(Header, YamlDict(MkDict(Required, Str(nm), Str(<<"a">>)))) :
        nm \in ShortNames \cup LongNames}

InitName ==
    /\ files \in {[p \in Paths |-> IF p = "p1" THEN f ELSE Missing] : f \in NameFiles}
    /\ calls = 1
    /\ InitLocals

SpecName == InitName /\ [][Next]_vars

\* A caller that validates two directories several times, in any order
RepeatFiles ==
    {Missing, ValidFile, NoPermission(ValidFile),
     File(Header, YamlDict(MkDict(Required \cup {K("extra")}, Str(<<"a">>), Str(<<"a">>)))),
     File(Header, YamlDict(MkDict(Required \cup {IntKey}, Str(<<"a">>), Str(<<"a">>)))),
     File(TextOfLines(LineLimit + 1), YamlDict(ValidDict))}

InitRepeat ==
    /\ files \in [Paths -> RepeatFiles]
    /\ calls = MaxCalls
    /\ InitLocals

SpecRepeat == InitRepeat /\ [][Next]_vars

----------------------------------------------------------------------------
(* What the properties are stated in *)

\* validate_skill has come back to its caller, one way or the other
Completed == pc \in {"returned", "raised"}

\* It ran on a regular, readable, decodable file that nobody changed meanwhile
RanOnText == skill_path # "" /\ ~touched /\ started.kind = "file"

\* The gates in the order of the specification, each by the message of its failure
\* (the header parse has two)
GateOrder ==
    <<"not_found", "no_frontmatter", "invalid_format", "invalid_yaml", "not_a_dict",
      "unexpected_keys", "missing_name", "missing_description", "name_type",
      "name_charset", "name_hyphens", "name_length", "description_type",
      "description_angle", "description_length", "too_long">>

GateIndex(id) == CHOOSE i \in 1..Len(GateOrder) : GateOrder[i] = id

\* The positions at which a line of the text starts
LineStarts(text) == {i \in 1..Len(text) : i = 1 \/ text[i - 1] = Newline}

\* The number of lines of a document
TrueLineCount(text) == Cardinality(LineStarts(text))

\* The parsed header of a file, when it has one
ParsedHeader(file) ==
    IF match(file.text) THEN yaml_safe_load(group1(file.text), file) ELSE YamlNonDict

FieldsOf(file) == ParsedHeader(file).d

\* The trimmed string value of a field; empty when the field is absent or no string
Trimmed(file, key) ==
    LET fields == FieldsOf(file)
    IN  IF key \in DOMAIN fields /\ fields[key].t = "str"
        THEN Strip(fields[key].s)
        ELSE <<>>

\* The gates a file, looked at as a whole, violates
Violations(file) ==
    LET header == ParsedHeader(file)
        fields == header.d
        nm == Trimmed(file, K("name"))
        ds == Trimmed(file, K("description"))
    IN  {id \in {GateOrder[i] : i \in 1..Len(GateOrder)} :
          CASE id = "not_found"           -> file.kind = "missing"
            [] id = "no_frontmatter"      -> ~has_frontmatter(file.text)
            [] id = "invalid_format"      -> ~match(file.text)
            [] id = "invalid_yaml"        -> header.kind = "error"
            [] id = "not_a_dict"          -> header.kind = "nondict"
            [] id = "unexpected_keys"     -> DOMAIN fields \ AllowedProperties # {}
            [] id = "missing_name"        -> K("name") \notin DOMAIN fields
            [] id = "missing_description" -> K("description") \notin DOMAIN fields
            [] id = "name_type"           -> /\ K("name") \in DOMAIN fields
                                             /\ fields[K("name")].t # "str"
            [] id = "name_charset"        -> nm # <<>> /\ ~hyphen_case(nm)
            [] id = "name_hyphens"        -> bad_hyphens(nm)
            [] id = "name_length"         -> Len(nm) > NameLimit
            [] id = "description_type"    -> /\ K("description") \in DOMAIN fields
                                             /\ fields[K("description")].t # "str"
            [] id = "description_angle"   -> has_angle_brackets(ds)
            [] id = "description_length"  -> Len(ds) > DescriptionLimit
            [] id = "too_long"            -> TrueLineCount(file.text) > LineLimit
            [] OTHER                      -> FALSE}

Violates(id, file) == id \in Violations(file)

\* The message of the earliest gate a file violates; "valid" when it violates none
FirstViolated(file) ==
    LET violated == Violations(file)
        bad == {i \in 1..Len(GateOrder) : GateOrder[i] \in violated}
    IN  IF bad = {} THEN "valid"
        ELSE GateOrder[CHOOSE i \in bad : \A j \in bad : i <= j]

----------------------------------------------------------------------------
(* C1: every failure becomes a (False, message) result; no exception ever
   escapes validate_skill to its caller. *)
C1_NoExceptionEscapes == pc # "raised" /\ exc = "none"

(* C2: the gates are applied in the fixed order of GateOrder: whenever
   validate_skill returns, its message is that of the earliest gate the
   document violates (the success message when it violates none), whatever
   later gates the document violates as well; and when it raises instead, it
   does so at the earliest violated gate too (at the read after a passed
   existence check, or at the unexpected-key gate). *)
C2_EarliestGateWins ==
    /\ (pc = "returned" /\ skill_path # "" /\ ~touched /\ started.kind \in {"missing", "file"})
          => result.message.id = FirstViolated(started)
    /\ (pc = "raised" /\ RanOnText)
          => exc = "TypeError" /\ FirstViolated(started) = "unexpected_keys"
    /\ (pc = "raised" /\ skill_path # "" /\ ~touched /\ started.kind # "file")
          => started.kind # "missing" /\ exc = read_text_error(started)

\* A document that lacks `name` and has an unexpected key fails on the key
C2_Witness ==
    /\ pc = "returned"
    /\ RanOnText
    /\ Violates("missing_name", started)
    /\ Violates("too_long", started)
    /\ result.message.id = "unexpected_keys"

----------------------------------------------------------------------------
\* The first line of a text, without its newline
FirstLine(text) ==
    LET nl == {i \in 1..Len(text) : text[i] = Newline}
    IN  IF nl = {} THEN text
        ELSE SubSeq(text, 1, (CHOOSE i \in nl : \A j \in nl : i <= j) - 1)

\* The line that starts at position i of a text
LineAt(text, i) == FirstLine(SubSeq(text, i, Len(text)))

BeginsWithThreeHyphens(text) ==
    Len(text) >= 3 /\ \A i \in 1..3 : text[i] = Hyphen

\* The starts of the lines after the first that consist of exactly `---`
ClosingLines(text) == {i \in LineStarts(text) : i > 1 /\ LineAt(text, i) = Dashes}

(* C3 as stated: every document whose first line is not exactly `---` fails
   with "No YAML frontmatter found", also when that line merely starts with
   three hyphens. *)
C3_FirstLineNotDelimiter ==
    (pc = "returned" /\ RanOnText /\ FirstLine(started.text) # Dashes)
        => result.message.id = "no_frontmatter"

(* C3, amended: a document fails with "No YAML frontmatter found" exactly when
   its text does not begin with the three characters `---`; a document whose
   first line begins with them without being exactly `---` fails with "Invalid
   frontmatter format". *)
C3_Amended ==
    (pc = "returned" /\ RanOnText)
        => /\ result.message.id = "no_frontmatter" <=> ~BeginsWithThreeHyphens(started.text)
           /\ (BeginsWithThreeHyphens(started.text) /\ FirstLine(started.text) # Dashes)
                 => result.message.id = "invalid_format"

\* A document that starts with the line `----` and a later proper `---` line
C3_Witness ==
    /\ pc = "returned"
    /\ RanOnText
    /\ FirstLine(started.text) = Dashes \o <<Hyphen>>
    /\ ClosingLines(started.text) # {}
    /\ result.message.id = "invalid_format"

(* C4: a document whose first line is the opening delimiter and in which no
   later line consists of exactly `---` (the only candidate being, say,
   `---x` or `----`) has no header block to extract: validate_skill fails with
   "Invalid frontmatter format". *)
C4_NoClosingLineFails ==
    (pc = "returned" /\ RanOnText
        /\ FirstLine(started.text) = Dashes /\ ClosingLines(started.text) = {})
        => result.message.id = "invalid_format"

----------------------------------------------------------------------------
\* No gate before the gate `id` is violated by the file
PassesBefore(id, file) ==
    LET violated == Violations(file)
    IN  \A i \in 1..(GateIndex(id) - 1) : GateOrder[i] \notin violated

\* [a-z0-9-]+ without a leading or trailing hyphen, without `--`, of at most 64
InNameLanguage(s) ==
    /\ Len(s) >= 1
    /\ \A i \in 1..Len(s) : s[i] \in HyphenCaseChars
    /\ s[1] # Hyphen
    /\ s[Len(s)] # Hyphen
    /\ \A i \in 1..(Len(s) - 1) : ~(s[i] = Hyphen /\ s[i + 1] = Hyphen)
    /\ Len(s) <= NameLimit

NameRejected == result.message.id \in {"name_charset", "name_hyphens", "name_length"}

(* C5 as stated: with a string-typed name that reaches the name-content gates,
   the name is accepted if and only if its trimmed value is in the language. *)
C5_AcceptedIffInLanguage ==
    (pc = "returned" /\ RanOnText /\ PassesBefore("name_charset", started))
        => (~NameRejected <=> InNameLanguage(Trimmed(started, K("name"))))

(* C5, amended: the name is accepted if and only if its trimmed value is empty
   or is in the language; every other name is rejected with a name failure. *)
C5_Amended ==
    (pc = "returned" /\ RanOnText /\ PassesBefore("name_charset", started))
        => (~NameRejected <=> \/ Trimmed(started, K("name")) = <<>>
                              \/ InNameLanguage(Trimmed(started, K("name"))))

\* A name of whitespace only has been accepted
C5_Witness ==
    /\ pc = "returned"
    /\ RanOnText
    /\ FieldsOf(started)[K("name")].s # <<>>
    /\ Trimmed(started, K("name")) = <<>>
    /\ result.valid

----------------------------------------------------------------------------
ValidName(file) ==
    /\ K("name") \in DOMAIN FieldsOf(file)
    /\ FieldsOf(file)[K("name")].t = "str"
    /\ \/ Trimmed(file, K("name")) = <<>>
       \/ InNameLanguage(Trimmed(file, K("name")))

ValidDescription(file) ==
    /\ K("description") \in DOMAIN FieldsOf(file)
    /\ FieldsOf(file)[K("description")].t = "str"
    /\ LET s == Trimmed(file, K("description"))
       IN  Len(s) <= DescriptionLimit /\ \A i \in 1..Len(s) : s[i] \notin {"<", ">"}

\* A header with allowed keys only, a valid name and a valid description
GoodHeader(file) ==
    /\ ParsedHeader(file).kind = "dict"
    /\ DOMAIN FieldsOf(file) \subseteq AllowedProperties
    /\ ValidName(file)
    /\ ValidDescription(file)

Succeeded(file) ==
    /\ pc = "returned"
    /\ result.valid
    /\ result.message.id = "valid"
    /\ result.message.num = TrueLineCount(file.text)

(* C6 as stated: allowed keys only, a valid name and a valid description give
   (True, message) with the true line count of the document. *)
C6_GoodHeaderSucceeds ==
    (Completed /\ RanOnText /\ GoodHeader(started)) => Succeeded(started)

(* C6, amended: allowed keys only, a valid name, a valid description and at
   most 500 lines give (True, message) with the true line count. *)
C6_Amended ==
    (Completed /\ RanOnText /\ GoodHeader(started)
        /\ TrueLineCount(started.text) <= LineLimit) => Succeeded(started)

\* Success on a document of exactly LineLimit lines
C6_Witness ==
    /\ Succeeded(started)
    /\ RanOnText
    /\ result.message.num = LineLimit

----------------------------------------------------------------------------
\* seq lists the string keys of S in ascending order
IsSortedListOf(seq, S) ==
    /\ Len(seq) = Cardinality(S)
    /\ {seq[i] : i \in 1..Len(seq)} = S
    /\ \A i \in 1..(Len(seq) - 1) : StrLess(seq[i].v, seq[i + 1].v)

(* C7: one key outside the allowed set, injected into an otherwise valid
   header, makes validate_skill return is_valid = False with a message that
   names exactly that key; in general the message lists the parsed keys minus
   the allowed set, sorted, and then the allowed set, sorted. *)
C7_InjectedKeyIsNamed ==
    /\ \A k \in DOMAIN FieldsOf(started) :
          (/\ Completed /\ RanOnText
           /\ ParsedHeader(started).kind = "dict"
           /\ DOMAIN FieldsOf(started) \ AllowedProperties = {k}
           /\ ValidName(started) /\ ValidDescription(started))
             => /\ pc = "returned"
                /\ ~result.valid
                /\ result.message.keys = <<k>>
    /\ (pc = "returned" /\ result.message.id = "unexpected_keys")
          => /\ IsSortedListOf(result.message.keys,
                               DOMAIN FieldsOf(started) \ AllowedProperties)
             /\ IsSortedListOf(result.message.allowed, AllowedProperties)

----------------------------------------------------------------------------
(* C8: past every other gate, the size gate fails if and only if the document
   has more than 500 lines: 500 lines succeed, 501 fail, and the failure
   reports the actual count and the maximum 500. *)
C8_SizeGate ==
    (Completed /\ RanOnText /\ PassesBefore("too_long", started))
        => /\ pc = "returned"
           /\ result.valid <=> TrueLineCount(started.text) <= LineLimit
           /\ ~result.valid
                 => /\ result.message.id = "too_long"
                    /\ result.message.num = TrueLineCount(started.text)
                    /\ result.message.max = LineLimit

\* A document of 501 lines has failed the size gate with 501 and 500
C8_Witness ==
    /\ pc = "returned"
    /\ RanOnText
    /\ PassesBefore("too_long", started)
    /\ TrueLineCount(started.text) = LineLimit + 1
    /\ result = [valid |-> FALSE, message |-> MsgNum("too_long", LineLimit + 1, LineLimit)]

----------------------------------------------------------------------------
(* C9: main exits with 0 if and only if it had exactly one positional argument
   and validate_skill returned True; it exits with 1 otherwise; with a wrong
   argument count it prints usage and never calls validate_skill; with one
   argument it prints exactly one line, a marker followed by the message. *)
C9_ExitCodeAndOutput ==
    (mode = "cli" /\ pc = "exited")
        => /\ exitcode \in {0, 1}
           /\ exitcode = 0 <=> (Len(argv) = 2 /\ exc = "none" /\ result.valid)
           /\ Len(argv) # 2 => (skill_path = "" /\ stdout # <<>>
                                 /\ \A i \in 1..Len(stdout) : stdout[i] = UsageLine)
           /\ Len(argv) = 2
                 => /\ Len(stdout) = 1
                    /\ stdout[1].marker = (IF result.valid THEN "ok" ELSE "fail")
                    /\ stdout[1].message = result.message

----------------------------------------------------------------------------
(* C10: validate_skill is deterministic and keeps no state: every invocation on
   a document gives the outcome every earlier invocation on the same unmodified
   document gave, whatever was validated in between, and no step of the
   validator changes a document or the allowed-keys constant. *)
C10_Deterministic ==
    [][/\ \A g, h \in history' : g.file = h.file => g.outcome = h.outcome
       /\ (Completed' /\ ~touched')
             => \A h \in history' : h.file = started' => h.outcome = Outcome'
       /\ ALLOWED_PROPERTIES' = AllowedProperties
       /\ files' # files => touched']_vars

\* A second validation of a document has returned what the first returned,
\* with a validation of another document in between
C10_Witness ==
    /\ pc = "returned"
    /\ ~touched
    /\ result.message.id = "unexpected_keys"
    /\ Cardinality(history) = 2
    /\ \E h \in history : h.file = started /\ h.outcome = Outcome

====
